---- MODULE Spec2Model ----
(***************************************************************************)
(* Model of cute-chess-bot (src/src/main.rs): the startup sequence of      *)
(* main, the shared client data behind its read/write lock, the command    *)
(* dispatch configured in main, and the handlers ready, unknown_command,   *)
(* color, blitz and whyrust.                                               *)
(*                                                                         *)
(* Strings are TLA+ strings; a message text is a sequence of one-character *)
(* strings so that the prefix and the command name are parsed out of it.   *)
(* A panic inside a handler ends that invocation only (the framework runs  *)
(* each dispatch in its own task); a panic inside main ends the process.   *)
(***************************************************************************)
EXTENDS Integers, Sequences, FiniteSets, TLC

VARIABLES mainPc,    \* position of main
          proc,      \* "running" | "aborted" | "exited"
          abortCause,\* which expect/panic of main aborted the process
          mainLog,   \* lines main printed
          lock,      \* the RwLock around client.data
          data,      \* the TypeMap: which keys are present, and the quotes
          inserts,   \* how many times a quote store was put into data
          hs         \* the handler invocations in flight, by slot

vars == <<mainPc, proc, abortCause, mainLog, lock, data, inserts, hs>>

(***************************** bounds *************************************)
MaxInFlight == 2

MaxStoreLen == 1

Slots == 1..MaxInFlight

(************************** program constants *****************************)
EMBED_SIDE_COLOR == <<255, 192, 203>>

BlitzQuote(q, a) == [quote |-> q, author |-> a]

Quotes ==
  << BlitzQuote("Rapid and blitz chess is first of all for enjoyment.", "Magnus Carlsen"),
     BlitzQuote("Playing rapid chess, one can lose the habit of concentrating for several hours in serious chess. That is why, if a player has big aims, he should limit his rapid play in favour of serious chess.", "Vladimir Kramnik"),
     BlitzQuote("He who analyses blitz is stupid.", "Rashid Nezhmetdinov"),
     BlitzQuote("Blitz chess kills your ideas.", "Bobby Fischer"),
     BlitzQuote("To be honest, I consider [bullet chess] a bit moronic, and therefore I never play it.", "Vladimir Kramnik"),
     BlitzQuote("I play way too much blitz chess. It rots the brain just as surely as alcohol.", "Nigel Short"),
     BlitzQuote("Blitz is simply a waste of time.", "Vladimir Malakhov"),
     BlitzQuote("[Blitz] is just getting positions where you can move fast. I mean, it's not chess.", "Hikaru Nakamura"),
     BlitzQuote("Always sack the exchange!", "Ben F6gold") >>

Reasons == << "Why not?", "Sane defaults", "It is fun!", "cargo" >>

WhyrustTitle == "Why rust?!"

ColorTitle == "Set your own role color!"

\* bot_channel_id, formatted in decimal by format!
BotChannelId == "855703545398427668"

ColorDesc ==
  "You can get cute :sparkles: by using the color commands at <#" \o BotChannelId
  \o ">\nUse `color list` to list all the available colors\nThen `color = [color name or number]` to set your role color!\nIf you'd like a color that is not on the list, let Lucy know!"

Prefix == "."

\* #[commands(blitz, whyrust, color)]
GroupCommands == {"blitz", "whyrust", "color"}

\* #[aliases("colour")] on color
Aliases == [colour |-> "color"]

RegisteredNames == GroupCommands \cup DOMAIN Aliases


(************************ Option values and payloads **********************)
\* Option<T> is a sequence of length at most one
None == <<>>

Some(v) == <<v>>

NoPayload ==
  [kind |-> "none", title |-> None, description |-> "", footer |-> None, color |-> None]

\* the CreateEmbed built inside send_message's closure
Embed(title, description, footer) ==
  [kind |-> "embed", title |-> title, description |-> description,
   footer |-> footer, color |-> Some(EMBED_SIDE_COLOR)]

(****************************** formatting ********************************)
RECURSIVE Concat(_)
Concat(s) == IF s = <<>> THEN "" ELSE Head(s) \o Concat(Tail(s))

\* write!(desc, "\"{}\"", &quotes[index].quote)
FormatDesc(entry) == "\"" \o entry.quote \o "\""

\* write!(the_quote, "- {}", &quotes[index].author)
FormatFooter(entry) == "- " \o entry.author

\* write!(choice, "{}", &reasons[random_index])
FormatChoice(reason) == "" \o reason

\* println!("Could not find command named '{}'", unknown_command_name)
UnknownLine(name) == "Could not find command named '" \o name \o "'"

\* println!("{} is connected!", ready.user.name)
ReadyLine(name) == name \o " is connected!"

(************************** command dispatch ******************************)
\* The framework configured in main: prefix ".", whitespace allowed between
\* the prefix and the command name, group General, unrecognised-command hook.
RECURSIVE SkipSpaces(_)
SkipSpaces(s) ==
  IF s # <<>> /\ Head(s) = " " THEN SkipSpaces(Tail(s)) ELSE s

RECURSIVE TakeName(_)
TakeName(s) ==
  IF s = <<>> \/ Head(s) = " " THEN <<>> ELSE <<Head(s)>> \o TakeName(Tail(s))

HasPrefix(text) == text # <<>> /\ Head(text) = Prefix

\* CommandName with the prefix left in the name
CommandName_KeepPrefix(text) == Concat(TakeName(text))

\* the command name that follows the prefix ("" when there is none)
CommandName(text) == Concat(TakeName(SkipSpaces(Tail(text))))

IsRegistered(name) == name \in RegisteredNames

\* the command a registered name runs, aliases resolved
Resolve(name) == IF name \in DOMAIN Aliases THEN Aliases[name] ELSE name

\* Route with no unrecognised-command hook installed
Route_NoHook(text) ==
  IF ~HasPrefix(text) \/ CommandName(text) = "" \/ ~IsRegistered(CommandName(text))
    THEN "ignore"
    ELSE "command"

\* "ignore": not a command; "command": a registered one; "unknown": the hook
Route(text) ==
  IF ~HasPrefix(text) \/ CommandName(text) = "" THEN "ignore"
  ELSE IF IsRegistered(CommandName(text)) THEN "command"
  ELSE "unknown"

(******************************* inputs ***********************************)
BlitzText   == <<".", "b", "l", "i", "t", "z">>
SpacedText  == <<".", " ", "w", "h", "y", "r", "u", "s", "t">>
ColorText   == <<".", "c", "o", "l", "o", "r">>
ColourText  == <<".", "c", "o", "l", "o", "u", "r", " ", "l", "i", "s", "t">>
PicsText    == <<".", "p", "i", "c", "s">>
HelpText    == <<".", "h", "e", "l", "p", " ", "m", "e">>
PingText    == <<"!", "p", "i", "n", "g">>

Texts == {BlitzText, SpacedText, ColorText, ColourText, PicsText, HelpText, PingText}

BotNames == {"cute-chess-bot"}

(****************************** state *************************************)
Idle ==
  [pc |-> "idle", text |-> <<>>, cmd |-> "", index |-> -1, payload |-> NoPayload,
   sends |-> 0, result |-> "none", logs |-> <<>>, outcome |-> "none", panic |-> ""]

NoLock == [writer |-> FALSE, readers |-> {}]

\* the state when main is entered: nothing built, no event can arrive yet
Init ==
  /\ mainPc = "token"
  /\ proc = "running"
  /\ abortCause = ""
  /\ mainLog = <<>>
  /\ lock = NoLock
  /\ data = [shard |-> FALSE, quotes |-> None]
  /\ inserts = 0
  /\ hs = [h \in Slots |-> Idle]

(******************************* main *************************************)
\* a panic in main: the process aborts with that diagnostic
Abort(cause) ==
  /\ proc' = "aborted"
  /\ abortCause' = cause
  /\ mainPc' = "dead"
  /\ UNCHANGED <<mainLog, lock, data, inserts, hs>>

Step(from, to) ==
  /\ proc = "running"
  /\ mainPc = from
  /\ mainPc' = to
  /\ UNCHANGED <<proc, abortCause, mainLog>>

\* env::var("CUTE_BOT_TOKEN").expect(..)
TokenPresent == Step("token", "appinfo") /\ UNCHANGED <<lock, data, inserts, hs>>

TokenMissing ==
  /\ proc = "running" /\ mainPc = "token"
  /\ Abort("Expected a token in the environment")

\* http.get_current_application_info().await
AppInfoOk == Step("appinfo", "user") /\ UNCHANGED <<lock, data, inserts, hs>>

AppInfoErr ==
  /\ proc = "running" /\ mainPc = "appinfo"
  /\ Abort("Could not access application info")

\* http.get_current_user().await, then the framework is configured
CurrentUserOk == Step("user", "client") /\ UNCHANGED <<lock, data, inserts, hs>>

CurrentUserErr ==
  /\ proc = "running" /\ mainPc = "user"
  /\ Abort("Could not access the bot id")

\* Client::builder(..).await.expect("Err creating client")
ClientBuildOk == Step("client", "write") /\ UNCHANGED <<lock, data, inserts, hs>>

ClientBuildErr ==
  /\ proc = "running" /\ mainPc = "client"
  /\ Abort("Err creating client")

\* client.data.write().await, then the shard manager is inserted
MainWrite ==
  /\ Step("write", "quotes")
  /\ ~lock.writer /\ lock.readers = {}
  /\ lock' = [lock EXCEPT !.writer = TRUE]
  /\ data' = [data EXCEPT !.shard = TRUE]
  /\ UNCHANGED <<inserts, hs>>

\* MainInsertQuotes with the insert forgotten
MainInsertQuotes_Skip ==
  /\ Step("quotes", "unlock")
  /\ UNCHANGED <<lock, data, inserts, hs>>

\* the vec! of quotes is built and inserted
MainInsertQuotes ==
  /\ Step("quotes", "unlock")
  /\ data' = [data EXCEPT !.quotes = Some(Quotes)]
  /\ inserts' = inserts + 1
  /\ UNCHANGED <<lock, hs>>

\* the block ends: the write guard is dropped
MainUnlock ==
  /\ Step("unlock", "start")
  /\ lock' = [lock EXCEPT !.writer = FALSE]
  /\ UNCHANGED <<data, inserts, hs>>

\* client.start() begins: events are dispatched from now on
MainStart == Step("start", "listening") /\ UNCHANGED <<lock, data, inserts, hs>>

\* client.start().await returns Err(why): printed, not propagated; main
\* returns and the runtime is dropped with every invocation still in flight
ClientStartErr ==
  /\ proc = "running" /\ mainPc = "listening"
  /\ proc' = "exited"
  /\ mainPc' = "returned"
  /\ mainLog' = mainLog \o <<"Client error">>
  /\ hs' = [h \in Slots |-> Idle]
  /\ lock' = NoLock
  /\ UNCHANGED <<abortCause, data, inserts>>

\* client.start().await returns Ok(()): the shards were shut down
ClientStartOk ==
  /\ proc = "running" /\ mainPc = "listening"
  /\ proc' = "exited"
  /\ mainPc' = "returned"
  /\ hs' = [h \in Slots |-> Idle]
  /\ lock' = NoLock
  /\ UNCHANGED <<abortCause, mainLog, data, inserts>>

Main ==
  \/ TokenPresent \/ TokenMissing
  \/ AppInfoOk \/ AppInfoErr
  \/ CurrentUserOk \/ CurrentUserErr
  \/ ClientBuildOk \/ ClientBuildErr
  \/ MainWrite \/ MainInsertQuotes \/ MainUnlock \/ MainStart
  \/ ClientStartErr \/ ClientStartOk

(***************************** handlers ***********************************)
\* events are delivered only while client.start() is running
Listening == proc = "running" /\ mainPc = "listening"

\* GenRange never yielding the first index
GenRange_SkipFirst(n) == 1 .. (n - 1)

\* rng.gen_range(0..n): the possible outcomes; it panics when there are none
GenRange(n) == 0 .. (n - 1)

\* a slot is free when it holds no invocation or a finished one
Free(h) == hs[h].pc \in {"idle", "done"}

Finish(h, outcome, msg) ==
  [hs[h] EXCEPT !.pc = "done", !.outcome = outcome, !.panic = msg]

\* the future returned by send_message is created and awaited
StartSend(h, index, payload) ==
  [hs[h] EXCEPT !.pc = "sending", !.index = index, !.payload = payload,
                !.sends = @ + 1]

\* a message arrives and the framework routes it
Receive(h, text) ==
  /\ Listening
  /\ Free(h)
  /\ hs' = [hs EXCEPT ![h] =
       IF Route(text) = "ignore"
         THEN [Idle EXCEPT !.pc = "done", !.outcome = "ignored", !.text = text]
       ELSE IF Route(text) = "command"
         THEN [Idle EXCEPT !.pc = Resolve(CommandName(text)), !.text = text,
                           !.cmd = Resolve(CommandName(text))]
       ELSE [Idle EXCEPT !.pc = "unknown", !.text = text,
                         !.cmd = CommandName(text)]]
  /\ UNCHANGED <<mainPc, proc, abortCause, mainLog, lock, data, inserts>>

\* Handler::ready
Ready(h, name) ==
  /\ Listening
  /\ Free(h)
  /\ hs' = [hs EXCEPT ![h] =
       [Idle EXCEPT !.pc = "done", !.outcome = "ok", !.cmd = "ready",
                    !.logs = <<ReadyLine(name)>>]]
  /\ UNCHANGED <<mainPc, proc, abortCause, mainLog, lock, data, inserts>>

\* the unrecognised-command hook
UnknownCommand(h) ==
  /\ Listening
  /\ hs[h].pc = "unknown"
  /\ hs' = [hs EXCEPT ![h] =
       [Finish(h, "ok", "") EXCEPT !.logs = @ \o <<UnknownLine(hs[h].cmd)>>]]
  /\ UNCHANGED <<mainPc, proc, abortCause, mainLog, lock, data, inserts>>

\* color, up to the await of send_message
Color(h) ==
  /\ Listening
  /\ hs[h].pc = "color"
  /\ hs' = [hs EXCEPT ![h] =
       StartSend(h, -1, Embed(Some(ColorTitle), ColorDesc, None))]
  /\ UNCHANGED <<mainPc, proc, abortCause, mainLog, lock, data, inserts>>

\* whyrust, up to the await of send_message
Whyrust(h) ==
  /\ Listening
  /\ hs[h].pc = "whyrust"
  /\ \E random_index \in GenRange(Len(Reasons)) :
       hs' = [hs EXCEPT ![h] =
         StartSend(h, random_index,
                   Embed(Some(WhyrustTitle), FormatChoice(Reasons[random_index + 1]), None))]
  /\ UNCHANGED <<mainPc, proc, abortCause, mainLog, lock, data, inserts>>

\* BlitzEmbed with the footer taken from a second, independent position
BlitzEmbed_OtherAuthor(quotes, index) ==
  Embed(None, FormatDesc(quotes[index + 1]),
        Some(FormatFooter(quotes[((index + 1) % Len(quotes)) + 1])))

\* the embed blitz builds from the entry at index
BlitzEmbed(quotes, index) ==
  Embed(None, FormatDesc(quotes[index + 1]), Some(FormatFooter(quotes[index + 1])))

\* Blitz taking the shared data exclusively, as a Mutex would
Blitz_Exclusive(h) ==
  /\ Listening
  /\ hs[h].pc = "blitz"
  /\ ~lock.writer /\ lock.readers = {}
  /\ \E index \in GenRange(Len(data.quotes[1])) :
       hs' = [hs EXCEPT ![h] = StartSend(h, index, BlitzEmbed(data.quotes[1], index))]
  /\ lock' = [lock EXCEPT !.readers = @ \cup {h}]
  /\ UNCHANGED <<mainPc, proc, abortCause, mainLog, data, inserts>>

\* Blitz removing the chosen entry from the store instead of borrowing it
Blitz_Remove(h) ==
  /\ Listening
  /\ hs[h].pc = "blitz"
  /\ ~lock.writer
  /\ data.quotes # None /\ data.quotes[1] # <<>>
  /\ \E index \in GenRange(Len(data.quotes[1])) :
       /\ hs' = [hs EXCEPT ![h] = StartSend(h, index, BlitzEmbed(data.quotes[1], index))]
       /\ data' = [data EXCEPT !.quotes =
            Some(SubSeq(data.quotes[1], 1, index) \o
                 SubSeq(data.quotes[1], index + 2, Len(data.quotes[1])))]
  /\ lock' = [lock EXCEPT !.readers = @ \cup {h}]
  /\ UNCHANGED <<mainPc, proc, abortCause, mainLog, inserts>>

\* Blitz returning Ok(()) without a reply when the store is empty
Blitz_SilentEmpty(h) ==
  /\ Listening
  /\ hs[h].pc = "blitz"
  /\ ~lock.writer
  /\ data.quotes # None
  /\ IF data.quotes[1] = <<>>
       THEN /\ hs' = [hs EXCEPT ![h] = Finish(h, "ok", "")]
            /\ UNCHANGED lock
       ELSE /\ \E index \in GenRange(Len(data.quotes[1])) :
                 hs' = [hs EXCEPT ![h] = StartSend(h, index, BlitzEmbed(data.quotes[1], index))]
            /\ lock' = [lock EXCEPT !.readers = @ \cup {h}]
  /\ UNCHANGED <<mainPc, proc, abortCause, mainLog, data, inserts>>

\* blitz, from ctx.data.read().await up to the await of send_message; the
\* read guard `data` lives until the function is left
Blitz(h) ==
  /\ Listening
  /\ hs[h].pc = "blitz"
  /\ ~lock.writer
  /\ IF data.quotes = None
       THEN /\ hs' = [hs EXCEPT ![h] = Finish(h, "panic", "Expected blitz quotes in typemap.")]
            /\ UNCHANGED lock
     ELSE IF GenRange(Len(data.quotes[1])) = {}
       THEN /\ hs' = [hs EXCEPT ![h] = Finish(h, "panic", "cannot sample empty range")]
            /\ UNCHANGED lock
     ELSE /\ \E index \in GenRange(Len(data.quotes[1])) :
               hs' = [hs EXCEPT ![h] = StartSend(h, index, BlitzEmbed(data.quotes[1], index))]
          /\ lock' = [lock EXCEPT !.readers = @ \cup {h}]
  /\ UNCHANGED <<mainPc, proc, abortCause, mainLog, data, inserts>>

\* send_message(..).await is Ok: the command returns Ok(())
SendOk(h) ==
  /\ Listening
  /\ hs[h].pc = "sending"
  /\ hs' = [hs EXCEPT ![h] = [Finish(h, "ok", "") EXCEPT !.result = "ok"]]
  /\ lock' = [lock EXCEPT !.readers = @ \ {h}]
  /\ UNCHANGED <<mainPc, proc, abortCause, mainLog, data, inserts>>

\* send_message(..).await is Err: .expect("error making message") panics and
\* the unwinding drops the read guard
SendErr(h) ==
  /\ Listening
  /\ hs[h].pc = "sending"
  /\ hs' = [hs EXCEPT ![h] =
       [Finish(h, "panic", "error making message") EXCEPT !.result = "err"]]
  /\ lock' = [lock EXCEPT !.readers = @ \ {h}]
  /\ UNCHANGED <<mainPc, proc, abortCause, mainLog, data, inserts>>

Handlers ==
  \E h \in Slots :
    \/ \E text \in Texts : Receive(h, text)
    \/ \E name \in BotNames : Ready(h, name)
    \/ UnknownCommand(h)
    \/ Color(h)
    \/ Whyrust(h)
    \/ Blitz(h)
    \/ SendOk(h)
    \/ SendErr(h)

Next == Main \/ Handlers

Spec == Init /\ [][Next]_vars

(************* blitz as a function of the store it is given ***************)
\* The handlers running over shared data whose quote store is any prefix of
\* the corpus, the empty one included.
InitStore ==
  /\ mainPc = "listening"
  /\ proc = "running"
  /\ abortCause = ""
  /\ mainLog = <<>>
  /\ lock = NoLock
  /\ \E n \in 0..MaxStoreLen : data = [shard |-> TRUE, quotes |-> Some(SubSeq(Quotes, 1, n))]
  /\ inserts = 1
  /\ hs = [h \in Slots |-> Idle]

SpecStore == InitStore /\ [][Handlers]_vars

(***************************** properties *********************************)

\* C1: when the send fails in blitz, whyrust or color, the invocation
\* finishes normally (the failure is swallowed, the handler does not crash).
C1_SendFailureSwallowed ==
  \A h \in Slots :
    (hs[h].cmd \in {"blitz", "whyrust", "color"} /\ hs[h].result = "err")
      => (hs[h].pc = "done" /\ hs[h].outcome = "ok" /\ hs[h].panic = "")

\* C2: the index selected by blitz is always in [0, 9) and the one selected
\* by whyrust in [0, 4); and at every selection every index of the store is
\* a possible outcome (so a random source that is fair to each outcome
\* selects each index again and again over repeated draws).
C2_IndexInRangeAndEveryIndexPossible ==
  \A h \in Slots :
    /\ (hs[h].cmd = "blitz" /\ hs[h].sends > 0) => hs[h].index \in 0..8
    /\ (hs[h].cmd = "whyrust" /\ hs[h].sends > 0) => hs[h].index \in 0..3
    /\ hs[h].pc = "blitz" =>
         \A i \in 0..8 : ENABLED (Blitz(h) /\ hs'[h].index = i)
    /\ hs[h].pc = "whyrust" =>
         \A i \in 0..3 : ENABLED (Whyrust(h) /\ hs'[h].index = i)

C2_Witness ==
  \E h1, h2 \in Slots :
    /\ hs[h1].cmd = "blitz" /\ hs[h1].pc = "sending" /\ hs[h1].index = 8
    /\ hs[h2].cmd = "whyrust" /\ hs[h2].pc = "sending" /\ hs[h2].index = 3

\* C3: a command whose name is not blitz, whyrust, color or colour makes no
\* send call and prints exactly one line, which names that command.
C3_UnknownCommandLoggedOnce ==
  \A h \in Slots :
    (/\ hs[h].text # <<>>
     /\ Head(hs[h].text) = "."
     /\ CommandName(hs[h].text) \notin {"", "blitz", "whyrust", "color", "colour"})
      => /\ hs[h].sends = 0
         /\ hs[h].payload.kind = "none"
         /\ hs[h].pc \in {"unknown", "done"}
         /\ hs[h].pc = "unknown" => hs[h].logs = <<>>
         /\ hs[h].pc = "done" =>
              hs[h].logs =
                <<"Could not find command named '" \o CommandName(hs[h].text) \o "'">>

C3_Witness ==
  \E h \in Slots :
    /\ hs[h].text = HelpText
    /\ hs[h].pc = "done"
    /\ hs[h].logs = <<"Could not find command named 'help'">>
    /\ hs[h].sends = 0

\* C4: a selection over an empty store fails at the selection, with a
\* failure that is not the send failure, and without side effects: no send
\* call is made, and neither the shared data nor its lock changes.
C4_EmptyStoreFailsWithoutEffects ==
  [][\A h \in Slots :
       (/\ hs[h].pc = "blitz"
        /\ data.quotes = <<(<<>>)>>
        /\ hs'[h] # hs[h])
         => /\ hs'[h].pc = "done"
            /\ hs'[h].outcome = "panic"
            /\ hs'[h].panic = "cannot sample empty range"
            /\ hs'[h].panic # "error making message"
            /\ hs'[h].result = "none"
            /\ hs'[h].sends = 0
            /\ hs'[h].payload.kind = "none"
            /\ data' = data
            /\ lock' = lock
            /\ inserts' = inserts]_vars

C4_Witness ==
  \E h \in Slots :
    /\ data.quotes = <<(<<>>)>>
    /\ hs[h].cmd = "blitz" /\ hs[h].pc = "done"
    /\ hs[h].panic = "cannot sample empty range"

\* C5: a blitz reply is built from one entry of the quote store: the
\* description is the entry's quote in double quotes, the footer is "- " and
\* the same entry's author, there is no title, and the color is
\* (255, 192, 203).
C5_BlitzReplyFromOneEntry ==
  \A h \in Slots :
    (hs[h].cmd = "blitz" /\ hs[h].sends > 0)
      => \E i \in 1..Len(Quotes) :
           /\ i = hs[h].index + 1
           /\ hs[h].payload.kind = "embed"
           /\ hs[h].payload.description = "\"" \o Quotes[i].quote \o "\""
           /\ hs[h].payload.footer = <<"- " \o Quotes[i].author>>
           /\ hs[h].payload.title = <<>>
           /\ hs[h].payload.color = << <<255, 192, 203>> >>

C5_Witness ==
  \E h \in Slots :
    /\ hs[h].cmd = "blitz"
    /\ hs[h].pc = "done" /\ hs[h].result = "ok"
    /\ hs[h].payload.description = "\"Blitz is simply a waste of time.\""
    /\ hs[h].payload.footer = <<"- Vladimir Malakhov">>

C7_OnlyTwoFatalConditions ==
  /\ proc = "aborted" =>
       abortCause \in {"Expected a token in the environment",
                       "Could not access application info",
                       "Could not access the bot id"}
  /\ \A h \in Slots : hs[h].result = "err" => hs[h].outcome # "panic"

\* C8: the quote store is put into the shared data exactly once, and from
\* then on it holds the same 9 entries in the same order.
C8_StoreBuiltOnceReadOnly ==
  /\ inserts <= 1
  /\ inserts = 0 => data.quotes = None
  /\ inserts = 1 => (data.quotes = Some(Quotes) /\ Len(data.quotes[1]) = 9)
  /\ mainPc \in {"unlock", "start", "listening", "returned"} => inserts = 1

C8_Witness ==
  /\ Listening
  /\ \E h \in Slots : hs[h].cmd = "blitz" /\ hs[h].pc = "done"
  /\ \E h \in Slots : hs[h].cmd = "help" /\ hs[h].pc = "done"
  /\ data.quotes = Some(Quotes)

\* C9: a blitz invocation never waits for the shared data: whenever one is
\* about to read it, it can proceed, whatever the other invocations hold.
C9_ReadersNeverWait ==
  \A h \in Slots :
    hs[h].pc = "blitz" => (~lock.writer /\ ENABLED Blitz(h))

C9_Witness ==
  \E h1, h2 \in Slots :
    /\ h1 # h2
    /\ hs[h1].pc = "blitz"
    /\ hs[h2].cmd = "blitz" /\ hs[h2].pc = "sending"
    /\ h2 \in lock.readers

\* C10: while the client listens the quote store is present and non-empty
\* and the write access is released, so no blitz invocation fails its lookup
\* or its selection.
C10_StoreReadyBeforeListening ==
  /\ Listening =>
       /\ ~lock.writer
       /\ data.quotes # None
       /\ Len(data.quotes[1]) > 0
  /\ \A h \in Slots :
       hs[h].panic \notin {"Expected blitz quotes in typemap.", "cannot sample empty range"}

C10_Witness ==
  \E h \in Slots : hs[h].cmd = "blitz" /\ hs[h].pc = "sending" /\ hs[h].sends = 1

====
